---------------------------- MODULE Spec2Model ----------------------------
(***************************************************************************)
(* Two scheduled handlers of the repository:                               *)
(*   - src/lambda_function/non-prod-lambda.py  : resizes Elastic Beanstalk *)
(*     environments between t3a.nano and r6a.large according to tags;      *)
(*   - src/lambda_function/non-prod-lambda1.py : stops / starts EC2        *)
(*     instances according to tags and the UTC hour.                       *)
(* Strings the code normalises (tag values) are sequences of characters,   *)
(* so that strip() and lower() are computed; names that the code only      *)
(* compares for equality (tag keys, instance types, ids) are atoms.        *)
(***************************************************************************)
EXTENDS Integers, Sequences, FiniteSets

(* ------------------------------ bounds -------------------------------- *)
\* number of invocations of a handler in one reused process
MaxRuns == 2
\* number of tag edits made by an operator while the model runs
MaxTagChanges == 1
\* state queries of one polling loop that find the instance not yet converged
MaxPolls == 2

(* ===================================================================== *)
(*  Part I : non-prod-lambda.py (resize handler)                          *)
(* ===================================================================== *)

UPGRADE_TAG_KEY == "auto-upgrade"
UPGRADE_INSTANCE_TYPE == "r6a.large"
DEGRADE_TAG_KEY == "auto-degrade"
DEGRADE_INSTANCE_TYPE == "t3a.nano"

\* Python None for a tag key argument / an instance type that was not fetched
NoKey == "<None>"
NoType == "<None>"

\* the environments of the application, in the order describe_environments
\* lists them
EnvNames == <<"env1", "env2">>
Envs == {EnvNames[i] : i \in DOMAIN EnvNames}
TagKeys == {UPGRADE_TAG_KEY, DEGRADE_TAG_KEY}

\* tag values an operator may set, as character sequences
TagValues ==
    { <<"t","r","u","e">>,
      <<" ","T","r","u","E"," ">>,
      <<"f","a","l","s","e">> }

\* a tag mapping is a Python dict: a function whose domain is the keys present
TagDicts == UNION { [D -> TagValues] : D \in SUBSET TagKeys }

InstanceTypes == {UPGRADE_INSTANCE_TYPE, DEGRADE_INSTANCE_TYPE}

\* outcomes of a collaborator call, as the except clauses tell them apart
Outcomes == {"ok", "ClientError", "Exception"}

\* the tag mappings environments carry when the model starts: each key absent,
\* 'true' in some spelling, or 'false'
InitTagDicts ==
    { [k \in {UPGRADE_TAG_KEY} |-> <<"t","r","u","e">>],
      [k \in {DEGRADE_TAG_KEY} |-> <<"t","r","u","e">>],
      [k \in TagKeys |-> IF k = UPGRADE_TAG_KEY THEN <<"t","r","u","e">>
                         ELSE <<" ","T","r","u","E"," ">>],
      [k \in TagKeys |-> IF k = UPGRADE_TAG_KEY THEN <<"f","a","l","s","e">>
                         ELSE <<"t","r","u","e">>],
      [k \in TagKeys |-> IF k = UPGRADE_TAG_KEY THEN <<" ","T","r","u","E"," ">>
                         ELSE <<"f","a","l","s","e">>] }

\* the values an operator's edit gives a tag during a run
TagEdits == { <<"t","r","u","e">>, <<"f","a","l","s","e">> }

\* the failures injected into the scan's calls, whose handlers catch
\* ClientError and Exception alike (the two differ in the line logged only)
ScanOutcomes == {"ok", "ClientError"}
ConfigOutcomes == {"ok", "Exception"}
\* update_environment succeeds or fails with either kind of error
UpdateOutcomes == {"ok", "ClientError", "Exception"}

Modes == {"upgrade", "downgrade", "<absent>"}

(* ------------------------- string functions --------------------------- *)
\* str.lower() on the alphabet of TagValues
LowerChar(c) ==
    CASE c = "T" -> "t"
      [] c = "R" -> "r"
      [] c = "U" -> "u"
      [] c = "E" -> "e"
      [] OTHER -> c

lower(s) == [i \in 1..Len(s) |-> LowerChar(s[i])]

IsSpace(c) == c = " "

RECURSIVE lstrip(_)
lstrip(s) == IF s # <<>> /\ IsSpace(Head(s)) THEN lstrip(Tail(s)) ELSE s

RECURSIVE rstrip(_)
rstrip(s) ==
    IF s # <<>> /\ IsSpace(s[Len(s)]) THEN rstrip(SubSeq(s, 1, Len(s) - 1)) ELSE s

\* str.strip()
strip(s) == rstrip(lstrip(s))

\* dict.get(key, default)
DictGet(d, key, default) == IF key \in DOMAIN d THEN d[key] ELSE default

\* truthiness of a tag key argument ("if upgrade_tag_key:")
Truthy(k) == k # NoKey /\ k # ""

\* variant: the test "tag_key in tags" in place of the comparison with "true"
TagIsTrue_present(tags, tag_key) == tag_key \in DOMAIN tags

\* str(tags.get(tag_key, "")).strip().lower() == "true"
TagIsTrue(tags, tag_key) ==
    lower(strip(DictGet(tags, tag_key, <<>>))) = <<"t","r","u","e">>


(* ------------------------------ state --------------------------------- *)
VARIABLES
    \* which of the two functions the process hosts: "resize" or "startstop"
    handler

VARIABLES
    \* the Elastic Beanstalk side (external collaborator)
    liveTags,        \* environment name -> tag mapping, as the API reports it now
    liveType,        \* environment name -> instance type configured now
    tagChanges,      \* tag edits made so far
    \* the reused Python process of the resize handler
    log_lines,       \* module-level list written by MemLogHandler.emit
    nHandlers,       \* MemLogHandler objects attached to the root logger
    runNo,           \* invocations started so far
    rpc,             \* position of the current invocation
    mode,            \* event.get("mode")
    listing,         \* env_resp["Environments"], as names, in listing order
    scanIdx,         \* position of the scan loop in listing
    envs,            \* environments_to_process / envs
    idx,             \* position of the handler's loop over envs
    all_log_output,  \* the joined log computed in the finally block
    ops,             \* history: every call of a resize operation in this run
    uploads,         \* history: every put_object attempted in this run
    logAtStart,      \* history: log_lines when the current run started
    lastResult       \* how the last invocation ended: "200", "raised" or "none"

rvars == <<liveTags, liveType, tagChanges, log_lines, nHandlers, runNo, rpc, mode,
           listing, scanIdx, envs, idx, all_log_output, ops, uploads, logAtStart,
           lastResult>>

VARIABLES
    \* the EC2 side (external collaborator)
    instState,       \* instance id -> state name reported now
    instTags,        \* instance id -> [stop, start]: values of the control tags now
    reservations,    \* how describe_instances groups the instances
    ec2TagChanges,   \* control-tag edits made so far
    \* the reused Python process of the start/stop handler
    text_file_content,         \* module-level list of log lines
    eRunNo,                    \* invocations started so far
    epc,                       \* position of the current invocation
    hour,                      \* timecheck[3]
    event,                     \* the payload the scheduler delivered
    ec2_tagged_for_autostop,   \* listing of running instances tagged for stop
    ec2_tagged_for_autostart,  \* listing of stopped instances tagged for start
    confirm_action_queue,
    instance_id_queue,
    confirm_action,            \* local left bound by the last stop call
    reservation,               \* local left bound by the last loop over a listing
    p1,                        \* position of a phase 1 loop in the flattened listing
    operated_instance_count,
    trace,                     \* history: calls and pops of this run, in order
    contentAtStart,            \* history: text_file_content when the run started
    tagsAtListing,             \* history: instTags when the listings were taken
    committed,                 \* history: the lines handed to text_file_commit
    eLast                      \* how the last invocation ended

evars == <<instState, instTags, reservations, ec2TagChanges, text_file_content,
           eRunNo, epc, hour, ec2_tagged_for_autostop, ec2_tagged_for_autostart,
           confirm_action_queue, instance_id_queue, confirm_action, reservation, p1,
           operated_instance_count, trace, contentAtStart, eLast, event,
           tagsAtListing, committed>>

vars == <<handler, rvars, evars>>

(* ------------------------------ logging ------------------------------- *)
\* a formatted log record; the text is kept as the message's fixed part
LogEntry(msg, env) == [run |-> runNo, msg |-> msg, env |-> env]

RECURSIVE Repeat(_, _)
Repeat(x, n) == IF n = 0 THEN <<>> ELSE <<x>> \o Repeat(x, n - 1)

\* logger.info / logger.error with h MemLogHandler objects attached: each
\* attached handler's emit appends the record to log_lines
emit(lines, h, entry) == lines \o Repeat(entry, h)

RECURSIVE emitAll(_, _, _)
emitAll(lines, h, entries) ==
    IF entries = <<>> THEN lines
    ELSE emitAll(emit(lines, h, Head(entries)), h, Tail(entries))

(* ----------------------- find_tagged_environments --------------------- *)
\* the keyword arguments the handler passes for each mode
ScanKeys(m) ==
    CASE m = "upgrade"   -> [upgrade_tag_key |-> UPGRADE_TAG_KEY, degrade_tag_key |-> NoKey]
      [] m = "downgrade" -> [upgrade_tag_key |-> NoKey, degrade_tag_key |-> DEGRADE_TAG_KEY]
      [] OTHER           -> [upgrade_tag_key |-> UPGRADE_TAG_KEY,
                             degrade_tag_key |-> DEGRADE_TAG_KEY]

has_upgrade_true(tags, upgrade_tag_key) ==
    IF Truthy(upgrade_tag_key) THEN TagIsTrue(tags, upgrade_tag_key) ELSE FALSE

\* variant: the degrade tag is examined whether or not its key was supplied
has_degrade_true_unguarded(tags, degrade_tag_key) == TagIsTrue(tags, DEGRADE_TAG_KEY)

has_degrade_true(tags, degrade_tag_key) ==
    IF Truthy(degrade_tag_key) THEN TagIsTrue(tags, degrade_tag_key) ELSE FALSE

\* the filter of step (2.1): FALSE means "continue"
Retained(tags, upgrade_tag_key, degrade_tag_key) ==
    has_upgrade_true(tags, upgrade_tag_key) \/ has_degrade_true(tags, degrade_tag_key)

\* the descriptor appended for a retained environment
Descriptor(env_name, tags, current_instance_type) ==
    [name |-> env_name, tags |-> tags, current_instance_type |-> current_instance_type]

(* --------------------------- resize operations ------------------------ *)
\* result of one call: the value returned, whether update_environment was
\* called, and the line logged
OpResult(ret, issued, msg) == [ret |-> ret, issued |-> issued, msg |-> msg]

\* variant: the test "current == target_type" is missing
initiate_eb_environment_upgrade_no_already(environment, tag_key, target_type, outcome) ==
    IF ~Truthy(tag_key)
    THEN OpResult(FALSE, FALSE, "[UPGRADE] no tag key configured; skipping.")
    ELSE IF ~TagIsTrue(environment.tags, tag_key)
    THEN OpResult(FALSE, FALSE, "[UPGRADE] tag != 'true'; skipping.")
    ELSE IF outcome = "ok"
    THEN OpResult(TRUE, TRUE, "[UPGRADE] Update sent")
    ELSE IF outcome = "ClientError"
    THEN OpResult(FALSE, TRUE, "[UPGRADE] AWS Client Error")
    ELSE OpResult(FALSE, TRUE, "[UPGRADE] Unexpected error")

\* variant: False is returned after the update was sent
initiate_eb_environment_upgrade_returns_false(environment, tag_key, target_type, outcome) ==
    IF ~Truthy(tag_key)
    THEN OpResult(FALSE, FALSE, "[UPGRADE] no tag key configured; skipping.")
    ELSE IF ~TagIsTrue(environment.tags, tag_key)
    THEN OpResult(FALSE, FALSE, "[UPGRADE] tag != 'true'; skipping.")
    ELSE IF environment.current_instance_type = target_type
    THEN OpResult(FALSE, FALSE, "[UPGRADE] already at target; skipping.")
    ELSE IF outcome = "ok"
    THEN OpResult(FALSE, TRUE, "[UPGRADE] Update sent")
    ELSE IF outcome = "ClientError"
    THEN OpResult(FALSE, TRUE, "[UPGRADE] AWS Client Error")
    ELSE OpResult(FALSE, TRUE, "[UPGRADE] Unexpected error")

initiate_eb_environment_upgrade(environment, tag_key, target_type, outcome) ==
    IF ~Truthy(tag_key)
    THEN OpResult(FALSE, FALSE, "[UPGRADE] no tag key configured; skipping.")
    ELSE IF ~TagIsTrue(environment.tags, tag_key)
    THEN OpResult(FALSE, FALSE, "[UPGRADE] tag != 'true'; skipping.")
    ELSE IF environment.current_instance_type = target_type
    THEN OpResult(FALSE, FALSE, "[UPGRADE] already at target; skipping.")
    ELSE IF outcome = "ok"
    THEN OpResult(TRUE, TRUE, "[UPGRADE] Update sent")
    ELSE IF outcome = "ClientError"
    THEN OpResult(FALSE, TRUE, "[UPGRADE] AWS Client Error")
    ELSE OpResult(FALSE, TRUE, "[UPGRADE] Unexpected error")

\* variant: the test "current == target_type" is inverted
initiate_eb_environment_downgrade_inverted(environment, tag_key, target_type, outcome) ==
    IF ~Truthy(tag_key)
    THEN OpResult(FALSE, FALSE, "[DOWNGRADE] no tag key configured; skipping.")
    ELSE IF ~TagIsTrue(environment.tags, tag_key)
    THEN OpResult(FALSE, FALSE, "[DOWNGRADE] tag != 'true'; skipping.")
    ELSE IF environment.current_instance_type # target_type
    THEN OpResult(FALSE, FALSE, "[DOWNGRADE] already at target; skipping.")
    ELSE IF outcome = "ok"
    THEN OpResult(TRUE, TRUE, "[DOWNGRADE] Update sent")
    ELSE IF outcome = "ClientError"
    THEN OpResult(FALSE, TRUE, "[DOWNGRADE] AWS Client Error")
    ELSE OpResult(FALSE, TRUE, "[DOWNGRADE] Unexpected error")

initiate_eb_environment_downgrade(environment, tag_key, target_type, outcome) ==
    IF ~Truthy(tag_key)
    THEN OpResult(FALSE, FALSE, "[DOWNGRADE] no tag key configured; skipping.")
    ELSE IF ~TagIsTrue(environment.tags, tag_key)
    THEN OpResult(FALSE, FALSE, "[DOWNGRADE] tag != 'true'; skipping.")
    ELSE IF environment.current_instance_type = target_type
    THEN OpResult(FALSE, FALSE, "[DOWNGRADE] already at target; skipping.")
    ELSE IF outcome = "ok"
    THEN OpResult(TRUE, TRUE, "[DOWNGRADE] Update sent")
    ELSE IF outcome = "ClientError"
    THEN OpResult(FALSE, TRUE, "[DOWNGRADE] AWS Client Error")
    ELSE OpResult(FALSE, TRUE, "[DOWNGRADE] Unexpected error")

\* history record of one call of a resize operation; "live" is the tag mapping
\* the environment has when the call is made
OpRecord(op, environment, tag_key, target_type, outcome, res) ==
    [op |-> op, env |-> environment.name, tag_key |-> tag_key,
     target |-> target_type, tags |-> environment.tags,
     current |-> environment.current_instance_type,
     issued |-> res.issued, ret |-> res.ret,
     outcome |-> IF res.issued THEN outcome ELSE "none",
     live |-> liveTags[environment.name]]


(* ------------------------- lambda_handler (resize) -------------------- *)
\* variant: with no mode the downgrade is evaluated whatever the upgrade returned
HandleEnv_always_downgrade(m, env, o1, o2) ==
    LET up == initiate_eb_environment_upgrade(env, UPGRADE_TAG_KEY,
                                              UPGRADE_INSTANCE_TYPE, o1)
        upRec == OpRecord("upgrade", env, UPGRADE_TAG_KEY, UPGRADE_INSTANCE_TYPE, o1, up)
        dn(o) == initiate_eb_environment_downgrade(env, DEGRADE_TAG_KEY,
                                                   DEGRADE_INSTANCE_TYPE, o)
        dnRec(o) == OpRecord("downgrade", env, DEGRADE_TAG_KEY, DEGRADE_INSTANCE_TYPE,
                             o, dn(o))
        upGuard == Truthy(UPGRADE_TAG_KEY) /\ Truthy(UPGRADE_INSTANCE_TYPE)
        dnGuard == Truthy(DEGRADE_TAG_KEY) /\ Truthy(DEGRADE_INSTANCE_TYPE)
    IN  CASE m = "upgrade" ->
               IF upGuard THEN [recs |-> <<upRec>>, msgs |-> <<up.msg>>]
               ELSE [recs |-> <<>>, msgs |-> <<>>]
          [] m = "downgrade" ->
               IF dnGuard THEN [recs |-> <<dnRec(o1)>>, msgs |-> <<dn(o1).msg>>]
               ELSE [recs |-> <<>>, msgs |-> <<>>]
          [] OTHER ->
               LET did_upgrade == IF upGuard THEN up.ret ELSE FALSE
                   first == IF upGuard THEN [recs |-> <<upRec>>, msgs |-> <<up.msg>>]
                            ELSE [recs |-> <<>>, msgs |-> <<>>]
               IN  IF dnGuard
                   THEN [recs |-> first.recs \o <<dnRec(o2)>>,
                         msgs |-> first.msgs \o <<dn(o2).msg>>]
                   ELSE first

\* one iteration of the handler's loop over envs, for each mode: the calls
\* made, in order, as history records
HandleEnv(m, env, o1, o2) ==
    LET up == initiate_eb_environment_upgrade(env, UPGRADE_TAG_KEY,
                                              UPGRADE_INSTANCE_TYPE, o1)
        upRec == OpRecord("upgrade", env, UPGRADE_TAG_KEY, UPGRADE_INSTANCE_TYPE, o1, up)
        dn(o) == initiate_eb_environment_downgrade(env, DEGRADE_TAG_KEY,
                                                   DEGRADE_INSTANCE_TYPE, o)
        dnRec(o) == OpRecord("downgrade", env, DEGRADE_TAG_KEY, DEGRADE_INSTANCE_TYPE,
                             o, dn(o))
        upGuard == Truthy(UPGRADE_TAG_KEY) /\ Truthy(UPGRADE_INSTANCE_TYPE)
        dnGuard == Truthy(DEGRADE_TAG_KEY) /\ Truthy(DEGRADE_INSTANCE_TYPE)
    IN  CASE m = "upgrade" ->
               IF upGuard THEN [recs |-> <<upRec>>, msgs |-> <<up.msg>>]
               ELSE [recs |-> <<>>, msgs |-> <<>>]
          [] m = "downgrade" ->
               IF dnGuard THEN [recs |-> <<dnRec(o1)>>, msgs |-> <<dn(o1).msg>>]
               ELSE [recs |-> <<>>, msgs |-> <<>>]
          [] OTHER ->
               LET did_upgrade == IF upGuard THEN up.ret ELSE FALSE
                   first == IF upGuard THEN [recs |-> <<upRec>>, msgs |-> <<up.msg>>]
                            ELSE [recs |-> <<>>, msgs |-> <<>>]
               IN  IF ~did_upgrade /\ dnGuard
                   THEN [recs |-> first.recs \o <<dnRec(o2)>>,
                         msgs |-> first.msgs \o <<dn(o2).msg>>]
                   ELSE first

\* the instance type an environment has after the calls of recs
RECURSIVE TypeAfter(_, _)
TypeAfter(t, recs) ==
    IF recs = <<>> THEN t
    ELSE TypeAfter(IF Head(recs).issued /\ Head(recs).outcome = "ok"
                   THEN Head(recs).target ELSE t, Tail(recs))

\* lines 201-215: an invocation begins
RBegin(m) ==
    /\ rpc = "idle"
    /\ runNo' = runNo + 1
    /\ nHandlers' = nHandlers + 1
    /\ mode' = m
    /\ logAtStart' = log_lines
    /\ log_lines' = emit(log_lines, nHandlers + 1,
                         [run |-> runNo + 1, msg |-> "Starting EB updates", env |-> "-"])
    /\ rpc' = "describe"
    /\ listing' = <<>>
    /\ scanIdx' = 1
    /\ envs' = <<>>
    /\ idx' = 1
    /\ all_log_output' = <<>>
    /\ ops' = <<>>
    /\ uploads' = <<>>
    /\ lastResult' = "none"
    /\ UNCHANGED <<liveTags, liveType, tagChanges>>
    /\ UNCHANGED <<handler, evars>>

\* the first invocation of a freshly loaded process
RStart(m) ==
    /\ handler = "resize"
    /\ runNo = 0
    /\ RBegin(m)

\* a later invocation that the runtime serves from the same process
RRestart(m) ==
    /\ handler = "resize"
    /\ 0 < runNo
    /\ runNo < MaxRuns
    /\ RBegin(m)

\* variant: a failure of describe_environments is logged and raised to the caller
RDescribe_raises(outcome) ==
    /\ rpc = "describe"
    /\ IF outcome = "ok"
       THEN /\ listing' = EnvNames
            /\ rpc' = "scan"
            /\ UNCHANGED log_lines
            /\ UNCHANGED lastResult
       ELSE /\ listing' = <<>>
            /\ rpc' = "idle"
            /\ log_lines' = emit(log_lines, nHandlers,
                                 LogEntry(IF outcome = "ClientError"
                                          THEN "AWS Client Error describing environments"
                                          ELSE "Error while trying to list environments",
                                          "-"))
            /\ lastResult' = "raised"
    /\ UNCHANGED <<liveTags, liveType, tagChanges, nHandlers, runNo, mode, scanIdx,
                   envs, idx, all_log_output, ops, uploads, logAtStart>>
    /\ UNCHANGED <<handler, evars>>

\* lines 55-60 and 113-116: the listing call of find_tagged_environments
RDescribe(outcome) ==
    /\ rpc = "describe"
    /\ IF outcome = "ok"
       THEN /\ listing' = EnvNames
            /\ rpc' = "scan"
            /\ UNCHANGED log_lines
       ELSE /\ listing' = <<>>
            /\ rpc' = "process"
            /\ log_lines' = emit(log_lines, nHandlers,
                                 LogEntry(IF outcome = "ClientError"
                                          THEN "AWS Client Error describing environments"
                                          ELSE "Error while trying to list environments",
                                          "-"))
    /\ UNCHANGED <<liveTags, liveType, tagChanges, nHandlers, runNo, mode, scanIdx,
                   envs, idx, all_log_output, ops, uploads, logAtStart, lastResult>>
    /\ UNCHANGED <<handler, evars>>

\* variant: the configuration fetch has no handler of its own, so that its
\* failure ends the scan
RScanEnv_cfg_aborts(tagOutcome, cfgOutcome) ==
    /\ rpc = "scan"
    /\ scanIdx <= Len(listing)
    /\ LET env_name == listing[scanIdx]
           keys == ScanKeys(mode)
           tags == liveTags[env_name]
           last == scanIdx = Len(listing)
       IN  IF tagOutcome # "ok"
           THEN \* list_tags_for_resource raised: caught by the outer handlers
                /\ log_lines' = emit(log_lines, nHandlers,
                                     LogEntry(IF tagOutcome = "ClientError"
                                              THEN "AWS Client Error describing environments"
                                              ELSE "Error while trying to list environments",
                                              env_name))
                /\ rpc' = "process"
                /\ UNCHANGED <<envs, scanIdx>>
           ELSE IF ~Retained(tags, keys.upgrade_tag_key, keys.degrade_tag_key)
           THEN /\ cfgOutcome = "ok"
                /\ scanIdx' = scanIdx + 1
                /\ rpc' = IF last THEN "process" ELSE "scan"
                /\ UNCHANGED <<envs, log_lines>>
           ELSE IF cfgOutcome # "ok"
           THEN /\ log_lines' = emit(log_lines, nHandlers,
                                     LogEntry("Couldn't fetch instance type", env_name))
                /\ rpc' = "process"
                /\ UNCHANGED <<envs, scanIdx>>
           ELSE /\ envs' = Append(envs,
                                  Descriptor(env_name, tags,
                                             IF cfgOutcome = "ok" THEN liveType[env_name]
                                             ELSE NoType))
                /\ log_lines' =
                     IF cfgOutcome = "ok" THEN log_lines
                     ELSE emit(log_lines, nHandlers,
                               LogEntry(IF cfgOutcome = "ClientError"
                                        THEN "AWS Client Error getting instance type"
                                        ELSE "Couldn't fetch instance type", env_name))
                /\ scanIdx' = scanIdx + 1
                /\ rpc' = IF last THEN "process" ELSE "scan"
    /\ UNCHANGED <<liveTags, liveType, tagChanges, nHandlers, runNo, mode, listing,
                   idx, all_log_output, ops, uploads, logAtStart, lastResult>>
    /\ UNCHANGED <<handler, evars>>

\* lines 62-111 (one iteration) and 113-118
RScanEnv(tagOutcome, cfgOutcome) ==
    /\ rpc = "scan"
    /\ scanIdx <= Len(listing)
    /\ LET env_name == listing[scanIdx]
           keys == ScanKeys(mode)
           tags == liveTags[env_name]
           last == scanIdx = Len(listing)
       IN  IF tagOutcome # "ok"
           THEN \* list_tags_for_resource raised: caught by the outer handlers
                /\ log_lines' = emit(log_lines, nHandlers,
                                     LogEntry(IF tagOutcome = "ClientError"
                                              THEN "AWS Client Error describing environments"
                                              ELSE "Error while trying to list environments",
                                              env_name))
                /\ rpc' = "process"
                /\ UNCHANGED <<envs, scanIdx>>
           ELSE IF ~Retained(tags, keys.upgrade_tag_key, keys.degrade_tag_key)
           THEN /\ cfgOutcome = "ok"
                /\ scanIdx' = scanIdx + 1
                /\ rpc' = IF last THEN "process" ELSE "scan"
                /\ UNCHANGED <<envs, log_lines>>
           ELSE /\ envs' = Append(envs,
                                  Descriptor(env_name, tags,
                                             IF cfgOutcome = "ok" THEN liveType[env_name]
                                             ELSE NoType))
                /\ log_lines' =
                     IF cfgOutcome = "ok" THEN log_lines
                     ELSE emit(log_lines, nHandlers,
                               LogEntry(IF cfgOutcome = "ClientError"
                                        THEN "AWS Client Error getting instance type"
                                        ELSE "Couldn't fetch instance type", env_name))
                /\ scanIdx' = scanIdx + 1
                /\ rpc' = IF last THEN "process" ELSE "scan"
    /\ UNCHANGED <<liveTags, liveType, tagChanges, nHandlers, runNo, mode, listing,
                   idx, all_log_output, ops, uploads, logAtStart, lastResult>>
    /\ UNCHANGED <<handler, evars>>

\* variant: a failed update call ends the loop over the environments
RProcessEnv_stops_on_failure(o1, o2) ==
    /\ rpc = "process"
    /\ idx <= Len(envs)
    /\ LET env == envs[idx]
           h == HandleEnv(mode, env, o1, o2)
       IN  /\ ops' = ops \o h.recs
           /\ log_lines' = emitAll(log_lines, nHandlers,
                                   [i \in 1..Len(h.msgs) |-> LogEntry(h.msgs[i], env.name)])
           /\ liveType' = [liveType EXCEPT ![env.name] = TypeAfter(@, h.recs)]
    /\ idx' = IF \E i \in 1..Len(HandleEnv(mode, envs[idx], o1, o2).recs) :
                   LET r == HandleEnv(mode, envs[idx], o1, o2).recs[i]
                   IN  r.issued /\ r.outcome # "ok"
              THEN Len(envs) + 1
              ELSE idx + 1
    /\ UNCHANGED <<liveTags, tagChanges, nHandlers, runNo, rpc, mode, listing, scanIdx,
                   envs, all_log_output, uploads, logAtStart, lastResult>>
    /\ UNCHANGED <<handler, evars>>

\* lines 218-239: one iteration of the loop over envs
RProcessEnv(o1, o2) ==
    /\ rpc = "process"
    /\ idx <= Len(envs)
    /\ LET env == envs[idx]
           h == HandleEnv(mode, env, o1, o2)
       IN  /\ ops' = ops \o h.recs
           /\ log_lines' = emitAll(log_lines, nHandlers,
                                   [i \in 1..Len(h.msgs) |-> LogEntry(h.msgs[i], env.name)])
           /\ liveType' = [liveType EXCEPT ![env.name] = TypeAfter(@, h.recs)]
    /\ idx' = idx + 1
    /\ UNCHANGED <<liveTags, tagChanges, nHandlers, runNo, rpc, mode, listing, scanIdx,
                   envs, all_log_output, uploads, logAtStart, lastResult>>
    /\ UNCHANGED <<handler, evars>>


\* lines 241 and 247-251: the body's last line, then the start of the finally
\* block, which joins log_lines once
RBodyEnd ==
    /\ rpc = "process"
    /\ idx > Len(envs)
    /\ log_lines' = emit(log_lines, nHandlers,
                         LogEntry("All applicable update commands have been sent", "-"))
    /\ all_log_output' = log_lines'
    /\ rpc' = "upload_archive"
    /\ UNCHANGED <<liveTags, liveType, tagChanges, nHandlers, runNo, mode, listing,
                   scanIdx, envs, idx, ops, uploads, logAtStart, lastResult>>
    /\ UNCHANGED <<handler, evars>>

\* upload_logs_to_s3 (lines 40-49): "raised" is TRUE when put_object raised an
\* exception that is not a ClientError, which the function does not catch
upload_logs_to_s3(file_description, outcome) ==
    IF outcome = "ok"
    THEN [raised |-> FALSE, msgs |-> <<"uploaded to s3">>]
    ELSE IF outcome = "ClientError"
    THEN [raised |-> FALSE, msgs |-> <<"Failed to upload to S3">>]
    ELSE [raised |-> TRUE, msgs |-> <<>>]

UploadRecord(kind, outcome) ==
    [kind |-> kind, content |-> all_log_output, outcome |-> outcome,
     updatesBefore |-> Len(SelectSeq(ops, LAMBDA r : r.issued))]

\* line 252
RUploadArchive(outcome) ==
    /\ rpc = "upload_archive"
    /\ LET u == upload_logs_to_s3("Archived Log", outcome)
       IN  /\ uploads' = Append(uploads, UploadRecord("archive", outcome))
           /\ log_lines' = emitAll(log_lines, nHandlers,
                                   [i \in 1..Len(u.msgs) |-> LogEntry(u.msgs[i], "archive")])
           /\ IF u.raised
              THEN rpc' = "idle" /\ lastResult' = "raised"
              ELSE rpc' = "upload_latest" /\ UNCHANGED lastResult
    /\ UNCHANGED <<liveTags, liveType, tagChanges, nHandlers, runNo, mode, listing,
                   scanIdx, envs, idx, all_log_output, ops, logAtStart>>
    /\ UNCHANGED <<handler, evars>>

\* lines 253-257
RUploadLatest(outcome) ==
    /\ rpc = "upload_latest"
    /\ LET u == upload_logs_to_s3("Latest Log", outcome)
       IN  /\ uploads' = Append(uploads, UploadRecord("latest", outcome))
           /\ log_lines' = emitAll(log_lines, nHandlers,
                                   [i \in 1..Len(u.msgs) |-> LogEntry(u.msgs[i], "latest")])
           /\ IF u.raised
              THEN lastResult' = "raised" /\ UNCHANGED nHandlers
              ELSE lastResult' = "200" /\ nHandlers' = nHandlers - 1
    /\ rpc' = "idle"
    /\ UNCHANGED <<liveTags, liveType, tagChanges, runNo, mode, listing,
                   scanIdx, envs, idx, all_log_output, ops, logAtStart>>
    /\ UNCHANGED <<handler, evars>>

\* an operator edits a tag of an environment after the scan of a run and before
\* the run has processed that environment
RTagChange(e, k, v) ==
    /\ rpc = "process"
    /\ \E i \in idx..Len(envs) : envs[i].name = e
    /\ tagChanges < MaxTagChanges
    /\ DictGet(liveTags[e], k, <<>>) # v
    /\ tagChanges' = tagChanges + 1
    /\ liveTags' = [liveTags EXCEPT ![e] =
                       [x \in (DOMAIN @) \cup {k} |-> IF x = k THEN v ELSE @[x]]]
    /\ UNCHANGED <<liveType, log_lines, nHandlers, runNo, rpc, mode, listing, scanIdx,
                   envs, idx, all_log_output, ops, uploads, logAtStart, lastResult>>
    /\ UNCHANGED <<handler, evars>>


(* ===================================================================== *)
(*  Part II : non-prod-lambda1.py (start/stop handler)                    *)
(* ===================================================================== *)

\* the instances of the account, in the order describe_instances lists them
InstNames == <<"i1", "i2">>
Insts == {InstNames[i] : i \in DOMAIN InstNames}

\* values of the control tags CNTRL-STOP / CNTRL-START an operator may set
EC2TagValues == {"True", "false"}

\* hours at which the scheduler may fire: the two scheduled ones and another
Hours == {2, 10, 14}
STOP_HOUR == 14
START_HOUR == 2

\* describe_instances groups instances by reservation: all launched together,
\* or each launched on its own
Groupings ==
    { <<InstNames>>, [i \in DOMAIN InstNames |-> <<InstNames[i]>>] }

RECURSIVE Flatten(_)
Flatten(rs) == IF rs = <<>> THEN <<>> ELSE Head(rs) \o Flatten(Tail(rs))

\* index of the reservation of listing rs that holds the k-th listed instance
RECURSIVE ReservationOf(_, _)
ReservationOf(rs, k) ==
    IF k <= Len(Head(rs)) THEN Head(rs) ELSE ReservationOf(Tail(rs), k - Len(Head(rs)))

InSeq(x, q) == \E i \in 1..Len(q) : q[i] = x

\* get_tagged_ec2_instances_by_state: the filtered listing, as reservations of
\* instance ids; the tag filter matches the values 'true' and 'True' exactly
get_tagged_ec2_instances_by_state(ec2_state_flag) ==
    LET field == IF ec2_state_flag = "running" THEN "stop" ELSE "start"
        match(i) == /\ instTags[i][field] \in {"true", "True"}
                    /\ instState[i] = ec2_state_flag
        filtered == [r \in 1..Len(reservations) |-> SelectSeq(reservations[r], match)]
    IN  SelectSeq(filtered, LAMBDA r : r # <<>>)

\* a line of text_file_content
TLine(msg, id) == [run |-> eRunNo, msg |-> msg, id |-> id]

\* history records: a call or a pop, the instance, the result; for a stop or
\* start call, the value the instance's control tag has when the call is made
Ev(ev, id, res) ==
    [ev |-> ev, id |-> id, res |-> res,
     live |-> CASE ev = "stop"  -> instTags[id].stop
                [] ev = "start" -> instTags[id].start
                [] OTHER -> "-"]

\* payloads the scheduler may deliver
Payloads == {"<empty>", "start"}

\* variant: the first element is examined (queue order)
Top_first(q) == q[1]

Top(q) == q[Len(q)]
Pop(q) == SubSeq(q, 1, Len(q) - 1)

\* an exception leaves lambda_handler: nothing after the raising line runs
EAbort ==
    /\ epc' = "idle"
    /\ eLast' = "raised"

\* lines 332-360: an invocation begins
EBegin(h, ev, listOutcome) ==
    /\ epc = "idle"
    /\ event' = ev
    /\ tagsAtListing' = instTags
    /\ committed' = <<>>
    /\ eRunNo' = eRunNo + 1
    /\ contentAtStart' = text_file_content
    /\ trace' = <<>>
    /\ hour' = h
    /\ confirm_action_queue' = <<>>
    /\ instance_id_queue' = <<>>
    /\ confirm_action' = FALSE
    /\ reservation' = <<>>
    /\ p1' = 1
    /\ operated_instance_count' = 0
    /\ IF listOutcome = "ok"
       THEN /\ ec2_tagged_for_autostop' = get_tagged_ec2_instances_by_state("running")
            /\ ec2_tagged_for_autostart' = get_tagged_ec2_instances_by_state("stopped")
            /\ text_file_content' = text_file_content \o
                   << [run |-> eRunNo + 1, msg |-> "LOGS STARTED", id |-> "-"],
                      [run |-> eRunNo + 1, msg |-> "Lambda Execution Started", id |-> "-"] >>
            /\ epc' = "stop_check"
            /\ eLast' = "none"
       ELSE /\ ec2_tagged_for_autostop' = <<>>
            /\ ec2_tagged_for_autostart' = <<>>
            /\ UNCHANGED text_file_content
            /\ EAbort
    /\ UNCHANGED <<instState, instTags, reservations, ec2TagChanges>>
    /\ UNCHANGED <<handler, rvars>>

\* the first invocation of a freshly loaded process
EStart(h, ev, listOutcome) ==
    /\ handler = "startstop"
    /\ eRunNo = 0
    /\ EBegin(h, ev, listOutcome)

\* a later invocation that the runtime serves from the same process
ERestart(h, ev, listOutcome) ==
    /\ handler = "startstop"
    /\ 0 < eRunNo
    /\ eRunNo < MaxRuns
    /\ EBegin(h, ev, listOutcome)

\* line 363: timecheck[3] == 14
stop_time(h) == h = STOP_HOUR

\* variant: the start pass tests the hour of the stop pass
start_time_stop_hour(h) == h = STOP_HOUR

\* line 451: timecheck[3] == 2
start_time(h) == h = START_HOUR

\* lines 363-366 and 444-447
EStopCheck ==
    /\ epc = "stop_check"
    /\ IF stop_time(hour)
       THEN /\ text_file_content' =
                  Append(text_file_content, TLine("Auto-Stop passed Time check", "-"))
            /\ epc' = IF Flatten(ec2_tagged_for_autostop) = <<>> THEN "stop_p2"
                      ELSE "stop_p1"
       ELSE /\ text_file_content' =
                  Append(text_file_content,
                         TLine("Auto-Stop will Only be triggered at 8 pm IST", "-"))
            /\ epc' = "start_check"
    /\ p1' = 1
    /\ UNCHANGED <<instState, instTags, reservations, ec2TagChanges, eRunNo, hour,
                   ec2_tagged_for_autostop, ec2_tagged_for_autostart,
                   confirm_action_queue, instance_id_queue, confirm_action, reservation,
                   operated_instance_count, trace, contentAtStart, eLast>>
    /\ UNCHANGED <<event, tagsAtListing, committed>>
    /\ UNCHANGED <<handler, rvars>>

\* variant: the except clause returns True
stop_single_ec2_instance_always_true(instance_id, outcome) ==
    IF outcome = "ok"
    THEN [ret |-> TRUE,
          lines |-> <<TLine("ATTEMPTING STOP ON INSTANCE ID", instance_id)>>]
    ELSE [ret |-> TRUE,
          lines |-> <<TLine("ERROR STOPPING INSTANCE ID", instance_id),
                      TLine("ERROR STOPPING INSTANCE ID | Exception", instance_id)>>]

\* stop_single_ec2_instance (lines 70-107): the value returned and the lines logged
stop_single_ec2_instance(instance_id, outcome) ==
    IF outcome = "ok"
    THEN [ret |-> TRUE,
          lines |-> <<TLine("ATTEMPTING STOP ON INSTANCE ID", instance_id)>>]
    ELSE [ret |-> FALSE,
          lines |-> <<TLine("ERROR STOPPING INSTANCE ID", instance_id),
                      TLine("ERROR STOPPING INSTANCE ID | Exception", instance_id)>>]

\* variant: refresh_instance_state is called before the stop call
EStopCall_refresh_first(outcome) ==
    /\ epc = "stop_p1"
    /\ LET flat == Flatten(ec2_tagged_for_autostop)
           instance_id == flat[p1]
           r == stop_single_ec2_instance(instance_id, outcome)
       IN  /\ p1 <= Len(flat)
           /\ confirm_action' = r.ret
           /\ text_file_content' = text_file_content \o r.lines
           /\ confirm_action_queue' = Append(confirm_action_queue, r.ret)
           /\ instance_id_queue' = Append(instance_id_queue, instance_id)
           /\ reservation' = ReservationOf(ec2_tagged_for_autostop, p1)
           /\ trace' = trace \o <<Ev("query", instance_id, instState[instance_id]),
                                   Ev("stop", instance_id,
                                      IF outcome = "ok" THEN "ok" ELSE "fail")>>
           /\ instState' = IF outcome = "ok" /\ instState[instance_id] \in {"running", "pending"}
                           THEN [instState EXCEPT ![instance_id] = "stopping"]
                           ELSE instState
           /\ p1' = p1 + 1
           /\ epc' = IF p1 = Len(flat) THEN "stop_p2" ELSE "stop_p1"
    /\ UNCHANGED <<instTags, reservations, ec2TagChanges, eRunNo, hour,
                   ec2_tagged_for_autostop, ec2_tagged_for_autostart,
                   operated_instance_count, contentAtStart, eLast>>
    /\ UNCHANGED <<event, tagsAtListing, committed>>
    /\ UNCHANGED <<handler, rvars>>

\* variant: the flag is put at the front of confirm_action_queue
EStopCall_prepends_flag(outcome) ==
    /\ epc = "stop_p1"
    /\ LET flat == Flatten(ec2_tagged_for_autostop)
           instance_id == flat[p1]
           r == stop_single_ec2_instance(instance_id, outcome)
       IN  /\ p1 <= Len(flat)
           /\ confirm_action' = r.ret
           /\ text_file_content' = text_file_content \o r.lines
           /\ confirm_action_queue' = <<r.ret>> \o confirm_action_queue
           /\ instance_id_queue' = Append(instance_id_queue, instance_id)
           /\ reservation' = ReservationOf(ec2_tagged_for_autostop, p1)
           /\ trace' = Append(trace, Ev("stop", instance_id,
                                        IF outcome = "ok" THEN "ok" ELSE "fail"))
           /\ instState' = IF outcome = "ok" /\ instState[instance_id] \in {"running", "pending"}
                           THEN [instState EXCEPT ![instance_id] = "stopping"]
                           ELSE instState
           /\ p1' = p1 + 1
           /\ epc' = IF p1 = Len(flat) THEN "stop_p2" ELSE "stop_p1"
    /\ UNCHANGED <<instTags, reservations, ec2TagChanges, eRunNo, hour,
                   ec2_tagged_for_autostop, ec2_tagged_for_autostart,
                   operated_instance_count, contentAtStart, eLast>>
    /\ UNCHANGED <<event, tagsAtListing, committed>>
    /\ UNCHANGED <<handler, rvars>>

\* lines 371-383: one iteration of phase 1 of the stop pass
EStopCall(outcome) ==
    /\ epc = "stop_p1"
    /\ LET flat == Flatten(ec2_tagged_for_autostop)
           instance_id == flat[p1]
           r == stop_single_ec2_instance(instance_id, outcome)
       IN  /\ p1 <= Len(flat)
           /\ confirm_action' = r.ret
           /\ text_file_content' = text_file_content \o r.lines
           /\ confirm_action_queue' = Append(confirm_action_queue, r.ret)
           /\ instance_id_queue' = Append(instance_id_queue, instance_id)
           /\ reservation' = ReservationOf(ec2_tagged_for_autostop, p1)
           /\ trace' = Append(trace, Ev("stop", instance_id,
                                        IF outcome = "ok" THEN "ok" ELSE "fail"))
           /\ instState' = IF outcome = "ok" /\ instState[instance_id] \in {"running", "pending"}
                           THEN [instState EXCEPT ![instance_id] = "stopping"]
                           ELSE instState
           /\ p1' = p1 + 1
           /\ epc' = IF p1 = Len(flat) THEN "stop_p2" ELSE "stop_p1"
    /\ UNCHANGED <<instTags, reservations, ec2TagChanges, eRunNo, hour,
                   ec2_tagged_for_autostop, ec2_tagged_for_autostart,
                   operated_instance_count, contentAtStart, eLast>>
    /\ UNCHANGED <<event, tagsAtListing, committed>>
    /\ UNCHANGED <<handler, rvars>>

\* log_refreshed_instance_state (lines 178-203): the lines appended
log_refreshed_instance_state(id, new_state) ==
    <<TLine("New State", id)>> \o
    (IF new_state = "pending" \/ new_state = "stopping"
     THEN <<TLine("It is not recommended to interupt this instance state", id)>>
     ELSE <<>>) \o
    (IF new_state = "shutting-down"
     THEN <<TLine("This instance is in getting terminated state", id)>>
     ELSE <<>>)


\* number of state queries of the trace for instance id that did not return target
Misses(id, target) ==
    Len(SelectSeq(trace, LAMBDA e : e.ev = "query" /\ e.id = id
                                    /\ e.res \notin {target, "raise"}))

\* lines 389-416 and 434-436: the top of the stack is examined. nameOutcome is
\* the outcome of instance_name_from_id inside the log line ("raise": the
\* describe call failed, or the instance has no Name tag and the concatenation
\* of None raises); queryOutcome the outcome of refresh_instance_state
EStopTop(nameOutcome, queryOutcome) ==
    /\ epc = "stop_p2"
    /\ instance_id_queue # <<>>
    /\ LET id == Top(instance_id_queue)
           new_state == instState[id]
           named == Append(trace, Ev("name", id, "ok"))
       IN  IF nameOutcome = "raise"
           THEN /\ EAbort
                /\ trace' = Append(trace, Ev("name", id, "raise"))
                /\ UNCHANGED <<text_file_content, confirm_action_queue,
                               instance_id_queue, reservation>>
           ELSE IF Top(confirm_action_queue) = FALSE
           THEN /\ text_file_content' =
                      Append(text_file_content, TLine("STOP ACTION DENIED for INSTANCE ID", id))
                /\ confirm_action_queue' = Pop(confirm_action_queue)
                /\ instance_id_queue' = Pop(instance_id_queue)
                /\ trace' = Append(named, Ev("pop", id, "denied"))
                /\ UNCHANGED <<epc, eLast, reservation>>
           ELSE IF queryOutcome = "raise"
           THEN /\ text_file_content' =
                      Append(text_file_content, TLine("STOPPING INSTANCE ID", id))
                /\ EAbort
                /\ trace' = Append(named, Ev("query", id, "raise"))
                /\ UNCHANGED <<confirm_action_queue, instance_id_queue, reservation>>
           ELSE /\ text_file_content' =
                      Append(text_file_content, TLine("STOPPING INSTANCE ID", id))
                      \o log_refreshed_instance_state(id, new_state)
                /\ reservation' = ec2_tagged_for_autostop[Len(ec2_tagged_for_autostop)]
                /\ IF confirm_action
                   THEN \* the polling loop is entered
                        /\ epc' = "stop_poll"
                        /\ trace' = Append(named, Ev("query", id, new_state))
                        /\ UNCHANGED <<confirm_action_queue, instance_id_queue, eLast>>
                   ELSE \* "while True and confirm_action" runs no iteration
                        /\ confirm_action_queue' = Pop(confirm_action_queue)
                        /\ instance_id_queue' = Pop(instance_id_queue)
                        /\ trace' = named \o <<Ev("query", id, new_state),
                                                Ev("pop", id, "confirmed")>>
                        /\ UNCHANGED <<epc, eLast>>
    /\ UNCHANGED <<instState, instTags, reservations, ec2TagChanges, eRunNo, hour,
                   ec2_tagged_for_autostop, ec2_tagged_for_autostart, confirm_action,
                   p1, operated_instance_count, contentAtStart>>
    /\ UNCHANGED <<event, tagsAtListing, committed>>
    /\ UNCHANGED <<handler, rvars>>

\* lines 421-436: one iteration of the polling loop of the stop pass
EStopPoll(queryOutcome, nameOutcome) ==
    /\ epc = "stop_poll"
    /\ LET id == Top(instance_id_queue)
           instance_new_state == instState[id]
       IN  IF queryOutcome = "raise"
           THEN /\ EAbort
                /\ trace' = Append(trace, Ev("query", id, "raise"))
                /\ UNCHANGED <<text_file_content, confirm_action_queue,
                               instance_id_queue, operated_instance_count>>
           ELSE IF instance_new_state = "stopped"
           THEN IF nameOutcome = "raise"
                THEN /\ EAbort
                     /\ trace' = trace \o <<Ev("query", id, instance_new_state),
                                             Ev("name", id, "raise")>>
                     /\ UNCHANGED <<text_file_content, confirm_action_queue,
                                    instance_id_queue, operated_instance_count>>
                ELSE /\ text_file_content' =
                           Append(text_file_content, TLine("CONFIRMED STOPPED STATE", id))
                     /\ operated_instance_count' = operated_instance_count + 1
                     /\ confirm_action_queue' = Pop(confirm_action_queue)
                     /\ instance_id_queue' = Pop(instance_id_queue)
                     /\ trace' = trace \o <<Ev("query", id, instance_new_state),
                                             Ev("name", id, "ok"),
                                             Ev("pop", id, "confirmed")>>
                     /\ epc' = "stop_p2"
                     /\ UNCHANGED eLast
           ELSE /\ Misses(id, "stopped") < MaxPolls
                /\ nameOutcome = "ok"
                /\ trace' = Append(trace, Ev("query", id, instance_new_state))
                /\ UNCHANGED <<text_file_content, confirm_action_queue, instance_id_queue,
                               operated_instance_count, epc, eLast>>
    /\ UNCHANGED <<instState, instTags, reservations, ec2TagChanges, eRunNo, hour,
                   ec2_tagged_for_autostop, ec2_tagged_for_autostart, confirm_action,
                   reservation, p1, contentAtStart>>
    /\ UNCHANGED <<event, tagsAtListing, committed>>
    /\ UNCHANGED <<handler, rvars>>

\* lines 389 (loop exit) and 441-442
EStopCleanup ==
    /\ epc = "stop_p2"
    /\ instance_id_queue = <<>>
    /\ confirm_action_queue' = <<>>
    /\ instance_id_queue' = <<>>
    /\ epc' = "start_check"
    /\ UNCHANGED <<instState, instTags, reservations, ec2TagChanges, text_file_content,
                   eRunNo, hour, ec2_tagged_for_autostop, ec2_tagged_for_autostart,
                   confirm_action, reservation, p1, operated_instance_count, trace,
                   contentAtStart, eLast>>
    /\ UNCHANGED <<event, tagsAtListing, committed>>
    /\ UNCHANGED <<handler, rvars>>

\* lines 451-453 and 504-507
EStartCheck ==
    /\ epc = "start_check"
    /\ IF start_time(hour)
       THEN /\ text_file_content' =
                  Append(text_file_content, TLine("Auto-Start passed Time check", "-"))
            /\ epc' = IF Flatten(ec2_tagged_for_autostart) = <<>> THEN "start_p2"
                      ELSE "start_p1"
       ELSE /\ text_file_content' =
                  Append(text_file_content,
                         TLine("Auto-Start will Only be triggered at 8 am IST", "-"))
            /\ epc' = "finish"
    /\ p1' = 1
    /\ UNCHANGED <<instState, instTags, reservations, ec2TagChanges, eRunNo, hour,
                   ec2_tagged_for_autostop, ec2_tagged_for_autostart,
                   confirm_action_queue, instance_id_queue, confirm_action, reservation,
                   operated_instance_count, trace, contentAtStart, eLast>>
    /\ UNCHANGED <<event, tagsAtListing, committed>>
    /\ UNCHANGED <<handler, rvars>>

\* start_single_ec2_instance (lines 109-144): the lines logged
start_single_ec2_instance(instance_id, outcome) ==
    IF outcome = "ok"
    THEN <<TLine("ATTEMPTING START ON INSTANCE ID", instance_id)>>
    ELSE <<TLine("ERROR STARTING INSTANCE ID", instance_id),
           TLine("ERROR STARTING INSTANCE ID | Exception", instance_id)>>

\* lines 458-466: one iteration of phase 1 of the start pass
EStartCall(outcome) ==
    /\ epc = "start_p1"
    /\ LET flat == Flatten(ec2_tagged_for_autostart)
           instance_id == flat[p1]
       IN  /\ p1 <= Len(flat)
           /\ text_file_content' =
                  text_file_content \o start_single_ec2_instance(instance_id, outcome)
           /\ instance_id_queue' = Append(instance_id_queue, instance_id)
           /\ reservation' = ReservationOf(ec2_tagged_for_autostart, p1)
           /\ trace' = Append(trace, Ev("start", instance_id,
                                        IF outcome = "ok" THEN "ok" ELSE "fail"))
           /\ instState' = IF outcome = "ok" /\ instState[instance_id] \in {"stopped", "stopping"}
                           THEN [instState EXCEPT ![instance_id] = "pending"]
                           ELSE instState
           /\ p1' = p1 + 1
           /\ epc' = IF p1 = Len(flat) THEN "start_p2" ELSE "start_p1"
    /\ UNCHANGED <<instTags, reservations, ec2TagChanges, eRunNo, hour,
                   ec2_tagged_for_autostop, ec2_tagged_for_autostart,
                   confirm_action_queue, confirm_action,
                   operated_instance_count, contentAtStart, eLast>>
    /\ UNCHANGED <<event, tagsAtListing, committed>>
    /\ UNCHANGED <<handler, rvars>>


\* lines 470-485 and 502: the top of the stack is examined in the start pass.
\* "reservation" is the variable the loop of phase 1 left bound to the last
\* reservation of the auto-start listing
EStartTop(nameOutcome, queryOutcome) ==
    /\ epc = "start_p2"
    /\ instance_id_queue # <<>>
    /\ LET id == Top(instance_id_queue)
           new_state == instState[id]
           named == Append(trace, Ev("name", id, "ok"))
       IN  IF nameOutcome = "raise"
           THEN /\ EAbort
                /\ trace' = Append(trace, Ev("name", id, "raise"))
                /\ UNCHANGED <<text_file_content, instance_id_queue,
                               operated_instance_count>>
           ELSE IF queryOutcome = "raise"
           THEN /\ text_file_content' =
                      Append(text_file_content, TLine("STARTED INSTANCE ID", id))
                /\ EAbort
                /\ trace' = Append(named, Ev("query", id, "raise"))
                /\ UNCHANGED <<instance_id_queue, operated_instance_count>>
           ELSE IF InSeq(id, reservation)
           THEN /\ text_file_content' =
                      Append(text_file_content, TLine("STARTED INSTANCE ID", id))
                      \o log_refreshed_instance_state(id, new_state)
                /\ operated_instance_count' = operated_instance_count + 1
                /\ trace' = named \o <<Ev("query", id, new_state),
                                        Ev("query", id, new_state)>>
                /\ epc' = "start_poll"
                /\ UNCHANGED <<instance_id_queue, eLast>>
           ELSE /\ text_file_content' =
                      Append(text_file_content, TLine("STARTED INSTANCE ID", id))
                /\ operated_instance_count' = operated_instance_count + 1
                /\ instance_id_queue' = Pop(instance_id_queue)
                /\ trace' = named \o <<Ev("query", id, new_state),
                                        Ev("pop", id, "started")>>
                /\ UNCHANGED <<epc, eLast>>
    /\ UNCHANGED <<instState, instTags, reservations, ec2TagChanges, eRunNo, hour,
                   ec2_tagged_for_autostop, ec2_tagged_for_autostart,
                   confirm_action_queue, confirm_action, reservation, p1, contentAtStart>>
    /\ UNCHANGED <<event, tagsAtListing, committed>>
    /\ UNCHANGED <<handler, rvars>>

\* lines 489-502: one iteration of the polling loop of the start pass
EStartPoll(queryOutcome, nameOutcome) ==
    /\ epc = "start_poll"
    /\ LET id == Top(instance_id_queue)
           instance_new_state == instState[id]
       IN  IF queryOutcome = "raise"
           THEN /\ EAbort
                /\ trace' = Append(trace, Ev("query", id, "raise"))
                /\ UNCHANGED <<text_file_content, instance_id_queue>>
           ELSE IF instance_new_state = "running"
           THEN IF nameOutcome = "raise"
                THEN /\ EAbort
                     /\ trace' = trace \o <<Ev("query", id, instance_new_state),
                                             Ev("name", id, "raise")>>
                     /\ UNCHANGED <<text_file_content, instance_id_queue>>
                ELSE /\ text_file_content' =
                           Append(text_file_content, TLine("CONFIRMED STARTED STATE", id))
                     /\ instance_id_queue' = Pop(instance_id_queue)
                     /\ trace' = trace \o <<Ev("query", id, instance_new_state),
                                             Ev("name", id, "ok"),
                                             Ev("pop", id, "started")>>
                     /\ epc' = "start_p2"
                     /\ UNCHANGED eLast
           ELSE /\ Misses(id, "running") < MaxPolls + 2
                /\ nameOutcome = "ok"
                /\ trace' = Append(trace, Ev("query", id, instance_new_state))
                /\ UNCHANGED <<text_file_content, instance_id_queue, epc, eLast>>
    /\ UNCHANGED <<instState, instTags, reservations, ec2TagChanges, eRunNo, hour,
                   ec2_tagged_for_autostop, ec2_tagged_for_autostart,
                   confirm_action_queue, confirm_action, reservation, p1,
                   operated_instance_count, contentAtStart>>
    /\ UNCHANGED <<event, tagsAtListing, committed>>
    /\ UNCHANGED <<handler, rvars>>

\* lines 489-496, an iteration of the polling loop beyond those the history
\* records: time.sleep(1) while the instance is not yet 'running' ...
EStartSleep ==
    /\ epc = "start_poll"
    /\ instState[Top(instance_id_queue)] # "running"
    /\ Misses(Top(instance_id_queue), "running") >= MaxPolls + 2
    /\ epc' = "start_sleep"
    /\ UNCHANGED <<instState, instTags, reservations, ec2TagChanges, text_file_content,
                   eRunNo, hour, ec2_tagged_for_autostop, ec2_tagged_for_autostart,
                   confirm_action_queue, instance_id_queue, confirm_action, reservation,
                   p1, operated_instance_count, trace, contentAtStart, eLast>>
    /\ UNCHANGED <<event, tagsAtListing, committed>>
    /\ UNCHANGED <<handler, rvars>>

\* ... and the loop comes round to its state query again
EStartWake ==
    /\ epc = "start_sleep"
    /\ epc' = "start_poll"
    /\ UNCHANGED <<instState, instTags, reservations, ec2TagChanges, text_file_content,
                   eRunNo, hour, ec2_tagged_for_autostop, ec2_tagged_for_autostart,
                   confirm_action_queue, instance_id_queue, confirm_action, reservation,
                   p1, operated_instance_count, trace, contentAtStart, eLast>>
    /\ UNCHANGED <<event, tagsAtListing, committed>>
    /\ UNCHANGED <<handler, rvars>>

\* line 470 (loop exit)
EStartDone ==
    /\ epc = "start_p2"
    /\ instance_id_queue = <<>>
    /\ epc' = "finish"
    /\ UNCHANGED <<instState, instTags, reservations, ec2TagChanges, text_file_content,
                   eRunNo, hour, ec2_tagged_for_autostop, ec2_tagged_for_autostart,
                   confirm_action_queue, instance_id_queue, confirm_action, reservation,
                   p1, operated_instance_count, trace, contentAtStart, eLast>>
    /\ UNCHANGED <<event, tagsAtListing, committed>>
    /\ UNCHANGED <<handler, rvars>>

\* lines 511-529: summary lines, text_file_commit (which catches every
\* exception of put_object), the clearing of the globals, the response
EFinish(commitOutcome) ==
    /\ epc = "finish"
    /\ trace' = Append(trace, Ev("commit", "-", commitOutcome))
    /\ committed' = text_file_content \o
                    << TLine("Lambda Execution Completed", "-"),
                       TLine("Total Instances Operated", "-"),
                       TLine("Lambda Execution Time", "-"),
                       TLine("LOGS ENDED", "-") >>
    /\ text_file_content' = <<>>
    /\ instance_id_queue' = <<>>
    /\ epc' = "idle"
    /\ eLast' = "200"
    /\ UNCHANGED <<instState, instTags, reservations, ec2TagChanges, eRunNo, hour,
                   ec2_tagged_for_autostop, ec2_tagged_for_autostart,
                   confirm_action_queue, confirm_action, reservation, p1,
                   operated_instance_count, contentAtStart>>
    /\ UNCHANGED <<event, tagsAtListing>>
    /\ UNCHANGED <<handler, rvars>>

\* EC2 completes a state transition that a stop or start call began
EProgress(i) ==
    /\ epc # "idle"
    /\ instState[i] \in {"stopping", "pending"}
    /\ instState' = [instState EXCEPT ![i] = IF @ = "stopping" THEN "stopped" ELSE "running"]
    /\ UNCHANGED <<instTags, reservations, ec2TagChanges, text_file_content, eRunNo, epc,
                   hour, ec2_tagged_for_autostop, ec2_tagged_for_autostart,
                   confirm_action_queue, instance_id_queue, confirm_action, reservation,
                   p1, operated_instance_count, trace, contentAtStart, eLast>>
    /\ UNCHANGED <<event, tagsAtListing, committed>>
    /\ UNCHANGED <<handler, rvars>>

\* an operator edits a control tag of an instance while a run is in progress
ETagChange(i, field, v) ==
    /\ epc \in {"stop_check", "stop_p1", "start_check", "start_p1"}
    /\ ec2TagChanges < MaxTagChanges
    /\ instTags[i][field] # v
    /\ ec2TagChanges' = ec2TagChanges + 1
    /\ instTags' = [instTags EXCEPT ![i][field] = v]
    /\ UNCHANGED <<instState, reservations, text_file_content, eRunNo, epc,
                   hour, ec2_tagged_for_autostop, ec2_tagged_for_autostart,
                   confirm_action_queue, instance_id_queue, confirm_action, reservation,
                   p1, operated_instance_count, trace, contentAtStart, eLast>>
    /\ UNCHANGED <<event, tagsAtListing, committed>>
    /\ UNCHANGED <<handler, rvars>>

(* ===================================================================== *)
(*  Specifications                                                        *)
(* ===================================================================== *)

\* the resize handler's process right after the module is loaded
RInitProcess ==
    /\ tagChanges = 0
    /\ log_lines = <<>>
    /\ nHandlers = 0
    /\ runNo = 0
    /\ rpc = "idle"
    /\ mode = "<absent>"
    /\ listing = <<>>
    /\ scanIdx = 1
    /\ envs = <<>>
    /\ idx = 1
    /\ all_log_output = <<>>
    /\ ops = <<>>
    /\ uploads = <<>>
    /\ logAtStart = <<>>
    /\ lastResult = "none"

\* the start/stop handler's process right after the module is loaded
EInitProcess ==
    /\ ec2TagChanges = 0
    /\ text_file_content = <<>>
    /\ eRunNo = 0
    /\ epc = "idle"
    /\ hour = 10
    /\ ec2_tagged_for_autostop = <<>>
    /\ ec2_tagged_for_autostart = <<>>
    /\ confirm_action_queue = <<>>
    /\ instance_id_queue = <<>>
    /\ confirm_action = FALSE
    /\ reservation = <<>>
    /\ p1 = 1
    /\ operated_instance_count = 0
    /\ trace = <<>>
    /\ contentAtStart = <<>>
    /\ event = "<empty>"
    /\ tagsAtListing = instTags
    /\ committed = <<>>
    /\ eLast = "none"

\* the resize handler against any Elastic Beanstalk application
RInit ==
    /\ handler = "resize"
    /\ liveTags \in [Envs -> InitTagDicts]
    /\ liveType \in [Envs -> InstanceTypes]
    /\ RInitProcess
    /\ instState = [i \in Insts |-> "stopped"]
    /\ instTags = [i \in Insts |-> [stop |-> "false", start |-> "false"]]
    /\ reservations = <<>>
    /\ EInitProcess

RRun ==
    \/ \E o \in Outcomes : RDescribe(o)
    \/ \E o1 \in ScanOutcomes, o2 \in ConfigOutcomes : RScanEnv(o1, o2)
    \/ \E o1, o2 \in UpdateOutcomes : RProcessEnv(o1, o2)
    \/ RBodyEnd
    \/ \E o \in Outcomes : RUploadArchive(o)
    \/ \E o \in Outcomes : RUploadLatest(o)
    \/ \E e \in Envs, k \in TagKeys, v \in TagEdits : RTagChange(e, k, v)

RNext ==
    \/ \E m \in Modes : RStart(m)
    \/ RRun


\* successive invocations: every Elastic Beanstalk call succeeds and no tag is
\* edited, so that what one invocation leaves in the process is all that
\* differs between the first invocation and the next
RNextReuse ==
    \/ \E m \in Modes : RStart(m)
    \/ \E m \in Modes : RRestart(m)
    \/ RDescribe("ok")
    \/ RScanEnv("ok", "ok")
    \/ RProcessEnv("ok", "ok")
    \/ RBodyEnd
    \/ \E o \in Outcomes : RUploadArchive(o)
    \/ \E o \in Outcomes : RUploadLatest(o)


\* the start/stop handler against any set of instances
EInit ==
    /\ handler = "startstop"
    /\ instState \in [Insts -> {"running", "stopped"}]
    /\ instTags \in [Insts -> [stop : EC2TagValues, start : EC2TagValues]]
    /\ reservations \in Groupings
    /\ EInitProcess
    /\ liveTags = [e \in Envs |-> <<>>]
    /\ liveType = [e \in Envs |-> DEGRADE_INSTANCE_TYPE]
    /\ RInitProcess

ERun ==
    \/ EStopCheck
    \/ \E o \in {"ok", "fail"} : EStopCall(o)
    \/ \E n, q \in {"ok", "raise"} : EStopTop(n, q)
    \/ \E q, n \in {"ok", "raise"} : EStopPoll(q, n)
    \/ EStopCleanup
    \/ EStartCheck
    \/ \E o \in {"ok", "fail"} : EStartCall(o)
    \/ \E n, q \in {"ok", "raise"} : EStartTop(n, q)
    \/ \E q, n \in {"ok", "raise"} : EStartPoll(q, n)
    \/ EStartSleep
    \/ EStartWake
    \/ EStartDone
    \/ \E c \in {"ok", "fail"} : EFinish(c)
    \/ \E i \in Insts : EProgress(i)
    \/ \E i \in Insts, f \in {"stop", "start"}, v \in EC2TagValues : ETagChange(i, f, v)

ENext ==
    \/ \E h \in Hours, ev \in Payloads, o \in {"ok", "raise"} : EStart(h, ev, o)
    \/ ERun

ENextReuse ==
    \/ \E h \in Hours, o \in {"ok", "raise"} : EStart(h, "<empty>", o)
    \/ \E h \in Hours, o \in {"ok", "raise"} : ERestart(h, "<empty>", o)
    \/ ERun

Init == RInit \/ EInit

Next == RNext \/ ENext

\* one invocation of either handler in a fresh process
Spec == Init /\ [][Next]_vars

NextReuse == RNextReuse \/ ENextReuse

\* successive invocations of either handler in one reused process
SpecReuse == Init /\ [][NextReuse]_vars

\* the steps of the start/stop handler when every describe call succeeds
ELiveStep ==
    \/ EStopCheck
    \/ \E o \in {"ok", "fail"} : EStopCall(o)
    \/ EStopTop("ok", "ok")
    \/ EStopPoll("ok", "ok")
    \/ EStopCleanup
    \/ EStartCheck
    \/ \E o \in {"ok", "fail"} : EStartCall(o)
    \/ EStartTop("ok", "ok")
    \/ EStartPoll("ok", "ok")
    \/ EStartSleep
    \/ EStartWake
    \/ EStartDone
    \/ \E c \in {"ok", "fail"} : EFinish(c)

ENextLive ==
    \/ \E h \in Hours : EStart(h, "<empty>", "ok")
    \/ ELiveStep
    \/ \E i \in Insts : EProgress(i)

\* one invocation of the start/stop handler that keeps running (the runtime
\* executes the next statement whenever there is one) against instances that
\* complete every transition a successful stop or start call began
SpecLive ==
    /\ EInit
    /\ [][ENextLive]_vars
    /\ WF_vars(ELiveStep)
    /\ \A i \in Insts : WF_vars(EProgress(i))

\* successive invocations of the resize handler with the same payload, every
\* call succeeding and no tag edited
RNextRepeat ==
    \/ \E m \in Modes : RStart(m)
    \/ RRestart(mode)
    \/ RDescribe("ok")
    \/ RScanEnv("ok", "ok")
    \/ RProcessEnv("ok", "ok")
    \/ RBodyEnd
    \/ RUploadArchive("ok")
    \/ RUploadLatest("ok")

SpecRepeat == RInit /\ [][RNextRepeat]_vars

(* ===================================================================== *)
(*  Properties                                                            *)
(* ===================================================================== *)

\* a value that is "true" once leading and trailing blanks are dropped and
\* case is ignored, said without strip() and lower()
SpelledTrue(v) ==
    \E lo \in 1..Len(v) :
        /\ lo + 3 <= Len(v)
        /\ \A i \in 1..(lo - 1) : v[i] = " "
        /\ \A i \in (lo + 4)..Len(v) : v[i] = " "
        /\ v[lo] \in {"t", "T"}
        /\ v[lo + 1] \in {"r", "R"}
        /\ v[lo + 2] \in {"u", "U"}
        /\ v[lo + 3] \in {"e", "E"}

\* the tag mapping holds key k with a value spelled 'true'
HasTrue(tags, k) == k \in DOMAIN tags /\ SpelledTrue(tags[k])

\* the tag keys an invocation with mode m supplies to the scan
SuppliedKeys(m) ==
    CASE m = "upgrade"   -> {UPGRADE_TAG_KEY}
      [] m = "downgrade" -> {DEGRADE_TAG_KEY}
      [] OTHER           -> TagKeys

\* the calls of the resize operations made for environment e in this run
OpsFor(e) == SelectSeq(ops, LAMBDA r : r.env = e)

Issued == SelectSeq(ops, LAMBDA r : r.issued)

\* C1: a resize operation called with a non-empty tag key issues
\* update_environment if and only if the descriptor's value for the key is
\* 'true' (trimmed, case-insensitive) and the descriptor's current instance
\* type differs from the target; in every other combination no call is issued.
C1_ResizeIssuesIff ==
    \A i \in 1..Len(ops) :
        ops[i].tag_key # "" =>
            (ops[i].issued <=> (/\ HasTrue(ops[i].tags, ops[i].tag_key)
                                /\ ops[i].current # ops[i].target))

\* C1 witness: one run in which an operation issued its call for a tag spelled
\* " TruE ", another skipped with the tag 'true' and the class at the target,
\* and another skipped because the tag is absent.
C1_Witness ==
    /\ \E i \in 1..Len(ops) :
          /\ ops[i].issued
          /\ ops[i].tag_key \in DOMAIN ops[i].tags
          /\ ops[i].tags[ops[i].tag_key] = <<" ","T","r","u","E"," ">>
    /\ \E i \in 1..Len(ops) :
          /\ ~ops[i].issued
          /\ HasTrue(ops[i].tags, ops[i].tag_key)
          /\ ops[i].current = ops[i].target
    /\ \E i \in 1..Len(ops) :
          /\ ~ops[i].issued
          /\ ops[i].tag_key \notin DOMAIN ops[i].tags
          /\ ops[i].current # ops[i].target

\* C2 (as claimed): log_lines is empty when a run of the resize handler
\* starts, and no log content a run uploads holds a line of an earlier run.
C2_NoCrossRunLeak ==
    /\ logAtStart = <<>>
    /\ \A u \in 1..Len(uploads) :
          \A l \in 1..Len(uploads[u].content) : uploads[u].content[l].run = runNo

\* C3 (as claimed): text_file_content is empty when a run of the start/stop
\* handler starts, whatever the outcome of the run before it.
C3_EmptyAtNextRun == contentAtStart = <<>>

\* an environment the scan read with both tags 'true' and class r6a.large
BothTrueAtLarge(d) ==
    /\ HasTrue(d.tags, UPGRADE_TAG_KEY)
    /\ HasTrue(d.tags, DEGRADE_TAG_KEY)
    /\ d.current_instance_type = "r6a.large"

C5_PopOnlyAfterStopped ==
    \A k \in 1..Len(trace) :
        (trace[k].ev = "pop" /\ trace[k].res = "confirmed") =>
            \E j \in 1..(k - 1) :
                /\ trace[j].ev = "query"
                /\ trace[j].id = trace[k].id
                /\ trace[j].res = "stopped"

\* C6 (as claimed): when a mutating call is made the resource's control tag
\* is 'true' at that moment.
C6_TagTrueAtCall ==
    /\ \A i \in 1..Len(ops) :
          ops[i].issued => HasTrue(ops[i].live, ops[i].tag_key)
    /\ \A k \in 1..Len(trace) :
          trace[k].ev \in {"stop", "start"} => trace[k].live \in {"true", "True"}

\* C6 (amended): a mutating call is made for a resource only if its control
\* tag was 'true' when the scan or listing of the run read it.
C6_TagTrueAtScan ==
    /\ \A i \in 1..Len(ops) :
          ops[i].issued => HasTrue(ops[i].tags, ops[i].tag_key)
    /\ \A k \in 1..Len(trace) :
          /\ trace[k].ev = "stop" => tagsAtListing[trace[k].id].stop \in {"true", "True"}
          /\ trace[k].ev = "start" => tagsAtListing[trace[k].id].start \in {"true", "True"}

\* C6 witness: an update call was issued for an environment whose control tag
\* had stopped being 'true' after the scan.
C6_Witness ==
    \E i \in 1..Len(ops) :
        /\ ops[i].issued
        /\ HasTrue(ops[i].tags, ops[i].tag_key)
        /\ ~HasTrue(ops[i].live, ops[i].tag_key)

\* C7 (as claimed): in the stop pass a state query for an instance precedes
\* its stop call.
C7_QueryBeforeStop ==
    \A k \in 1..Len(trace) :
        trace[k].ev = "stop" =>
            \E j \in 1..(k - 1) : trace[j].ev = "query" /\ trace[j].id = trace[k].id

\* C7 (amended): in the stop pass no describe call of the run's second phase
\* (state query or name lookup) precedes a stop call: every stop call is made
\* for an instance of the original listing, and a state query for an instance
\* is made only after its stop call has returned success.
C7_StopFromListingQueryAfter ==
    \A k \in 1..Len(trace) :
        /\ trace[k].ev = "stop" =>
              /\ InSeq(trace[k].id, Flatten(ec2_tagged_for_autostop))
              /\ \A j \in 1..(k - 1) : trace[j].ev \notin {"query", "name"}
        /\ (trace[k].ev = "query" /\ hour = 14) =>
              \E j \in 1..(k - 1) :
                  /\ trace[j].ev = "stop"
                  /\ trace[j].id = trace[k].id
                  /\ trace[j].res = "ok"

\* C7 witness: a stop call was followed by a state query for the same instance.
C7_Witness ==
    \E k \in 1..Len(trace) :
        /\ trace[k].ev = "stop"
        /\ \E j \in (k + 1)..Len(trace) :
              /\ trace[j].ev = "query"
              /\ trace[j].id = trace[k].id
              /\ trace[j].res \in {"running", "stopping", "stopped"}

\* C8: every environment find_tagged_environments returns has one of the
\* supplied tag keys with a value 'true' (trimmed, case-insensitive); a key
\* that was not supplied does not qualify an environment.
C8_ScanReturnsTagged ==
    \A i \in 1..Len(envs) :
        \E k \in SuppliedKeys(mode) : HasTrue(envs[i].tags, k)

\* C8 witness: a scan in upgrade mode is complete, it returned an environment,
\* and it left out one whose degrade tag alone is 'true'.
C8_Witness ==
    /\ mode = "upgrade"
    /\ rpc = "process"
    /\ scanIdx > Len(listing)
    /\ envs # <<>>
    /\ \E e \in Envs :
          /\ InSeq(e, listing)
          /\ HasTrue(liveTags[e], DEGRADE_TAG_KEY)
          /\ ~HasTrue(liveTags[e], UPGRADE_TAG_KEY)
          /\ \A i \in 1..Len(envs) : envs[i].name # e

HasLine(lines, msg) == \E l \in 1..Len(lines) : lines[l].msg = msg /\ lines[l].run = eRunNo

\* C9: stop calls are issued only at hour 14 and start calls only at hour 2,
\* whatever the payload; a run at another hour issues neither and logs both
\* "will Only be triggered" messages.
C9_HourGate ==
    /\ \A k \in 1..Len(trace) :
          /\ trace[k].ev = "stop" => hour = 14
          /\ trace[k].ev = "start" => hour = 2
    /\ (eLast = "200" /\ hour \notin {2, 14}) =>
          /\ \A k \in 1..Len(trace) : trace[k].ev \notin {"stop", "start"}
          /\ HasLine(committed, "Auto-Stop will Only be triggered at 8 pm IST")
          /\ HasLine(committed, "Auto-Start will Only be triggered at 8 am IST")

\* C9 witness: a run at hour 14 with a payload naming a start issued a stop
\* call, had an instance listed for start, and ended.
C9_Witness ==
    /\ eLast = "200"
    /\ hour = 14
    /\ event = "start"
    /\ ec2_tagged_for_autostart # <<>>
    /\ \E k \in 1..Len(trace) : trace[k].ev = "stop"

\* C10 (as claimed): a run of the resize handler that has ended attempted one
\* archive upload and one 'latest' upload, in that order, after every update
\* call of the run and with the same content; in upgrade mode with a single
\* environment read as auto-upgrade 'true' at t3a.nano there was exactly one
\* update call, to r6a.large.
C10_TwoUploadsAfterUpdates ==
    (handler = "resize" /\ rpc = "idle" /\ runNo > 0) =>
        /\ Len(uploads) = 2
        /\ uploads[1].kind = "archive" /\ uploads[2].kind = "latest"
        /\ uploads[1].content = uploads[2].content
        /\ uploads[1].updatesBefore = Len(Issued)
        /\ uploads[2].updatesBefore = Len(Issued)
        /\ (/\ mode = "upgrade"
            /\ Len(envs) = 1
            /\ HasTrue(envs[1].tags, UPGRADE_TAG_KEY)
            /\ envs[1].current_instance_type = "t3a.nano")
           => (Len(Issued) = 1 /\ Issued[1].target = "r6a.large")

\* some supplied key of mode m is 'true' in the tag mapping
Qualifies(tags, m) == \E k \in SuppliedKeys(m) : HasTrue(tags, k)

\* the scan returned environment e
Returned(e) == \E j \in 1..Len(envs) : envs[j].name = e

\* a run of the resize handler is past its scan
ScanOver == handler = "resize" /\ runNo > 0 /\ rpc \notin {"describe", "scan"}

\* the current run of the resize handler logged msg about env
HasLog(msg, env) ==
    \E l \in 1..Len(log_lines) :
        /\ log_lines[l].run = runNo
        /\ log_lines[l].msg = msg
        /\ log_lines[l].env = env

\* C11 (as claimed): when the tag fetch of one environment fails, only that
\* environment is lost: every other listed environment whose tags qualify,
\* those listed after it included, is returned by the scan and has a resize
\* operation applied once the loop over the environments has ended.
C11_TagFailureSkipsOneEnv ==
    ScanOver =>
        \A i \in 1..Len(listing) :
            (i # scanIdx /\ Qualifies(liveTags[listing[i]], mode)) =>
                /\ Returned(listing[i])
                /\ rpc # "process" => OpsFor(listing[i]) # <<>>

\* C12: find_tagged_environments never raises to the handler: a run ends by
\* an exception only in its uploads; a failure of the listing call is logged
\* and the list returned is empty; a failure of a tag fetch is logged and the
\* list built so far is returned; a failure of a configuration fetch is logged.
C12_ScanNeverRaises ==
    (handler = "resize" /\ runNo > 0) =>
        /\ lastResult = "raised" => uploads # <<>>
        /\ (rpc # "describe" /\ listing = <<>>) =>
              /\ envs = <<>>
              /\ \/ HasLog("AWS Client Error describing environments", "-")
                 \/ HasLog("Error while trying to list environments", "-")
        /\ (rpc \notin {"describe", "scan"} /\ scanIdx <= Len(listing)) =>
              /\ HasLog("AWS Client Error describing environments", listing[scanIdx])
              /\ \A j \in 1..Len(envs) :
                    \E i \in 1..(scanIdx - 1) : listing[i] = envs[j].name
        /\ \A j \in 1..Len(envs) :
              envs[j].current_instance_type = NoType =>
                  HasLog("Couldn't fetch instance type", envs[j].name)

\* C12 witness: the listing call failed, and the run went on to its uploads
\* with an empty list and no resize operation.
C12_Witness ==
    /\ handler = "resize"
    /\ rpc = "upload_archive"
    /\ listing = <<>>
    /\ envs = <<>>
    /\ ops = <<>>
    /\ HasLog("Error while trying to list environments", "-")

\* the ids of the events of one kind, in trace order
RECURSIVE IdsOf(_, _)
IdsOf(t, kind) ==
    IF t = <<>> THEN <<>>
    ELSE (IF Head(t).ev = kind THEN <<Head(t).id>> ELSE <<>>) \o IdsOf(Tail(t), kind)

Reverse(q) == [i \in 1..Len(q) |-> q[Len(q) + 1 - i]]

\* a run of the start/stop handler whose stop pass (start pass) has ended
StopPassDone ==
    /\ handler = "startstop" /\ eRunNo > 0 /\ hour = 14
    /\ epc \in {"start_check", "finish"} \/ (epc = "idle" /\ eLast = "200")

StartPassDone ==
    /\ handler = "startstop" /\ eRunNo > 0 /\ hour = 2
    /\ epc = "finish" \/ (epc = "idle" /\ eLast = "200")

\* C13: when a stop (start) pass has ended, the stop (start) calls issued are
\* those of the instances of the listing, once each and in listing order, the
\* instances were removed from the stack once each in the reverse order, and
\* the stack is empty.
C13_EachCandidateOnceReversed ==
    /\ StopPassDone =>
          /\ IdsOf(trace, "stop") = Flatten(ec2_tagged_for_autostop)
          /\ IdsOf(trace, "pop") = Reverse(Flatten(ec2_tagged_for_autostop))
          /\ instance_id_queue = <<>>
    /\ StartPassDone =>
          /\ IdsOf(trace, "start") = Flatten(ec2_tagged_for_autostart)
          /\ IdsOf(trace, "pop") = Reverse(Flatten(ec2_tagged_for_autostart))
          /\ instance_id_queue = <<>>

\* C13 witness: a stop pass over two instances has ended.
C13_Witness ==
    /\ StopPassDone
    /\ Len(Flatten(ec2_tagged_for_autostop)) = 2
    /\ Len(IdsOf(trace, "pop")) = 2

\* C14 (as claimed): a run whose processing completed returns the response
\* with statusCode 200 whatever happened to its log uploads.
C14_UploadFailureNeverRaised ==
    /\ (handler = "resize" /\ runNo > 0 /\ rpc = "idle") => lastResult = "200"
    /\ (handler = "startstop" /\ epc = "idle" /\ IdsOf(trace, "commit") # <<>>) =>
          eLast = "200"

\* the resize operation op applies to descriptor d: its tag is 'true' and the
\* class read by the scan differs from its target
NeedsUpdate(d, op) ==
    IF op = "upgrade"
    THEN HasTrue(d.tags, UPGRADE_TAG_KEY) /\ d.current_instance_type # "r6a.large"
    ELSE HasTrue(d.tags, DEGRADE_TAG_KEY) /\ d.current_instance_type # "t3a.nano"

IssuedFor(e, op) ==
    \E i \in 1..Len(ops) : ops[i].env = e /\ ops[i].op = op /\ ops[i].issued

\* C15: a resize operation whose update call failed returned False, and the
\* loop went on: every environment the loop has passed that satisfies the tag
\* and current-differs-from-target conditions of the operation the mode
\* selects had its update call issued, whatever failed before it.
C15_UpdateFailureIsLocal ==
    /\ \A i \in 1..Len(ops) :
          (ops[i].issued /\ ops[i].outcome # "ok") => ~ops[i].ret
    /\ \A j \in 1..Len(envs) :
          j < idx =>
              /\ (mode # "downgrade" /\ NeedsUpdate(envs[j], "upgrade")) =>
                    IssuedFor(envs[j].name, "upgrade")
              /\ (mode = "downgrade" /\ NeedsUpdate(envs[j], "downgrade")) =>
                    IssuedFor(envs[j].name, "downgrade")
              /\ (/\ mode = "<absent>"
                  /\ NeedsUpdate(envs[j], "downgrade")
                  /\ ~NeedsUpdate(envs[j], "upgrade")) =>
                    IssuedFor(envs[j].name, "downgrade")

\* C15 witness: the update call of one environment failed and the update call
\* of a later environment was issued.
C15_Witness ==
    \E i \in 1..Len(ops) :
        /\ ops[i].issued
        /\ ops[i].outcome # "ok"
        /\ \E k \in (i + 1)..Len(ops) : ops[k].issued /\ ops[k].env # ops[i].env

\* C16: with mode 'upgrade' only the upgrade operation is called and with mode
\* 'downgrade' only the downgrade operation; an upgrade call targets r6a.large
\* and a downgrade call t3a.nano; with no mode the upgrade operation is called
\* first for each environment and the downgrade operation is called for that
\* environment exactly when the upgrade did not return True.
C16_ModeDispatch ==
    /\ \A i \in 1..Len(ops) :
          /\ mode = "upgrade" => ops[i].op = "upgrade"
          /\ mode = "downgrade" => ops[i].op = "downgrade"
          /\ ops[i].op = "upgrade" => ops[i].target = "r6a.large"
          /\ ops[i].op = "downgrade" => ops[i].target = "t3a.nano"
    /\ \A j \in 1..Len(envs) :
          j < idx =>
              LET rs == OpsFor(envs[j].name)
              IN  IF mode = "<absent>"
                  THEN /\ Len(rs) >= 1
                       /\ rs[1].op = "upgrade"
                       /\ IF rs[1].ret THEN Len(rs) = 1
                          ELSE Len(rs) = 2 /\ rs[2].op = "downgrade"
                  ELSE Len(rs) = 1

\* C16 witness: a run with no mode in which the upgrade returned True for one
\* environment and the downgrade was called for another.
C16_Witness ==
    /\ mode = "<absent>"
    /\ \E i \in 1..Len(ops) : ops[i].op = "upgrade" /\ ops[i].ret
    /\ \E i \in 1..Len(ops) : ops[i].op = "downgrade" /\ ops[i].issued
    /\ idx > Len(envs)
    /\ Len(envs) = 2

HasELine(msg, id) ==
    \E l \in 1..Len(text_file_content) :
        /\ text_file_content[l].run = eRunNo
        /\ text_file_content[l].msg = msg
        /\ text_file_content[l].id = id

C18_QueriesEndAtFirstStopped ==
    hour = 14 =>
        \A k \in 1..Len(trace) :
            /\ (trace[k].ev = "pop" /\ trace[k].res = "confirmed") =>
                  \E j \in 1..(k - 1) :
                      trace[j].ev = "query" /\ trace[j].id = trace[k].id
                      /\ trace[j].res = "stopped"
            /\ (trace[k].ev = "query" /\ trace[k].res = "stopped") =>
                  \A j \in (k + 1)..Len(trace) :
                      ~(trace[j].ev = "query" /\ trace[j].id = trace[k].id)

\* the configuration fetch of environment e failed in the current run
CfgFailed(e) ==
    \/ HasLog("Couldn't fetch instance type", e)
    \/ HasLog("AWS Client Error getting instance type", e)

\* C19: an environment whose configuration fetch failed is returned with its
\* instance type unset, the scan moves on past it, and every environment
\* scanned after it whose tags qualify is returned.
C19_ConfigFailureKeepsEnv ==
    (handler = "resize" /\ runNo > 0) =>
        \A i \in 1..Len(listing) :
            CfgFailed(listing[i]) =>
                /\ \E j \in 1..Len(envs) :
                      /\ envs[j].name = listing[i]
                      /\ envs[j].current_instance_type = NoType
                      /\ Qualifies(envs[j].tags, mode)
                /\ scanIdx > i
                /\ \A n \in (i + 1)..(scanIdx - 1) :
                      (n <= Len(listing) /\ Qualifies(liveTags[listing[n]], mode)) =>
                          Returned(listing[n])

\* C19 witness: the configuration fetch of the first environment failed and
\* the second environment was scanned and returned.
C19_Witness ==
    /\ handler = "resize"
    /\ Len(listing) = 2
    /\ CfgFailed(listing[1])
    /\ Len(envs) = 2
    /\ envs[1].current_instance_type = NoType
    /\ envs[2].name = listing[2]
    /\ envs[2].current_instance_type # NoType

\* C20 (as claimed): in the start pass an instance is removed from the stack
\* only after a state query for it returned 'running'.
C20_StartedBeforePop ==
    \A k \in 1..Len(trace) :
        (trace[k].ev = "pop" /\ trace[k].res = "started") =>
            \E j \in 1..(k - 1) :
                /\ trace[j].ev = "query"
                /\ trace[j].id = trace[k].id
                /\ trace[j].res = "running"

\* C21 (as claimed): every run of the start/stop handler that has started
\* eventually commits its log and returns statusCode 200.
C21_RunTerminates == (epc # "idle") ~> (epc = "idle" /\ eLast = "200")

\* the update calls attempted for environment e in this run
IssuedOpsFor(e) == SelectSeq(ops, LAMBDA r : r.env = e /\ r.issued)

\* C22 (as claimed): in a run with no mode at most one update_environment
\* call is attempted for an environment.
C22_OneAttemptPerEnv ==
    mode = "<absent>" => \A e \in Envs : Len(IssuedOpsFor(e)) <= 1

\* C22 (amended): in a run with no mode at most one update_environment call
\* succeeds for an environment and at most two are attempted; the downgrade
\* call is attempted after an upgrade call only when the upgrade call failed,
\* and then it is attempted whenever the auto-degrade tag is 'true' and the
\* class read by the scan is not t3a.nano.
C22_DowngradeOnlyAfterFailedUpgrade ==
    mode = "<absent>" =>
        \A j \in 1..Len(envs) :
            LET rs == IssuedOpsFor(envs[j].name)
            IN  /\ Len(rs) <= 2
                /\ Len(SelectSeq(rs, LAMBDA r : r.outcome = "ok")) <= 1
                /\ Len(rs) = 2 =>
                      /\ rs[1].op = "upgrade" /\ rs[1].outcome # "ok"
                      /\ rs[2].op = "downgrade"
                /\ (/\ j < idx
                    /\ Len(rs) >= 1
                    /\ rs[1].op = "upgrade" /\ rs[1].outcome # "ok"
                    /\ NeedsUpdate(envs[j], "downgrade")) => Len(rs) = 2

\* C22 witness: a run with no mode attempted the upgrade call of an
\* environment, which failed, and then its downgrade call.
C22_Witness ==
    /\ mode = "<absent>"
    /\ \E e \in Envs :
          LET rs == IssuedOpsFor(e)
          IN  /\ Len(rs) = 2
              /\ rs[1].op = "upgrade" /\ rs[1].outcome # "ok"
              /\ rs[2].op = "downgrade"

\* C23 (as claimed): with the same mode, tags unchanged and every update
\* taking effect, a run after the first issues no update call.
C23_LaterRunsIssueNothing ==
    runNo >= 2 => \A i \in 1..Len(ops) : ~ops[i].issued

\* the result of the stop call made for instance id in this run
StopResult(id) ==
    \E k \in 1..Len(trace) :
        trace[k].ev = "stop" /\ trace[k].id = id /\ trace[k].res = "ok"

\* C24: in a run at the hour of the stop pass confirm_action_queue and
\* instance_id_queue have the same length, and the flag at each index is the
\* result of the stop call issued for the instance id at that index.
C24_StacksInStep ==
    (handler = "startstop" /\ hour = 14 /\ epc \in {"stop_p1", "stop_p2", "stop_poll"}) =>
        /\ Len(confirm_action_queue) = Len(instance_id_queue)
        /\ \A i \in 1..Len(instance_id_queue) :
              /\ i <= Len(confirm_action_queue)
              /\ confirm_action_queue[i] = StopResult(instance_id_queue[i])

\* C24 witness: the stacks hold two instances, the stop call of one succeeded
\* and that of the other failed.
C24_Witness ==
    /\ epc = "stop_p2"
    /\ Len(instance_id_queue) = 2
    /\ Len(confirm_action_queue) = 2
    /\ confirm_action_queue[1] # confirm_action_queue[2]

\* the instances for which a state query of this run returned the target state
\* of the pass
Confirmed ==
    { i \in Insts :
        \E k \in 1..Len(trace) :
            /\ trace[k].ev = "query"
            /\ trace[k].id = i
            /\ trace[k].res = IF hour = 14 THEN "stopped" ELSE "running" }

\* C25 (as claimed): the count logged as 'Total Instances Operated' when a run
\* ends is the number of instances for which a state query of the run returned
\* the target state.
C25_CountIsConfirmed ==
    (handler = "startstop" /\ eRunNo > 0 /\ epc = "idle" /\ eLast = "200") =>
        operated_instance_count = Cardinality(Confirmed)

=============================================================================
